---- MODULE Spec2Model ----
(***************************************************************************)
(* Decision layer of the visual-AI service: the model router               *)
(* (services/visual-ai/src/router.py) and the temporal analyzer            *)
(* (services/visual-ai/src/models/vjepa2.py).                              *)
(*                                                                         *)
(* Similarities and thresholds are fixed-point numbers in hundredths:      *)
(* 98 stands for 0.98, 100 for 1.0.  Arithmetic on them is exact.          *)
(***************************************************************************)
EXTENDS Integers, Sequences, FiniteSets, TLC

VARIABLES
    \* ModelRouter
    available_models,     \* ModelRouter.available_models (a Python set)
    iter_order,           \* the order in which that set object iterates
    call,                 \* arguments of the latest route() call, or NoCall
    result,               \* what that call returned (or that it raised)
    prev_result,          \* result of the call before, if it had the same arguments
                          \* (the availability set is the same throughout a
                          \* behaviour); NoResult otherwise
    \* VJEPA2Encoder.detect_stability
    frames,               \* the frames argument, each frame as its embedding
    threshold,            \* the threshold argument
    pc,                   \* position in detect_stability
    similarities,         \* the list of consecutive-pair similarities
    walk_i,               \* 1 + the loop index i of the walk over similarities
    stable_count,
    stable_at,
    verdict,              \* the returned tuple
    \* VisualAIServicer._simple_stability, given the same frames and threshold
    simple_pc,            \* position in _simple_stability
    simple_verdict,       \* the returned tuple
    \* VJEPA2Encoder.validate_healing
    transition_sim,       \* cosine similarity of the two transition embeddings
    final_sim,            \* cosine similarity of the two final-state embeddings
    heal_threshold,       \* the threshold argument
    use_hf,               \* VJEPA2Encoder.use_hf
    heal_pc,              \* position in validate_healing
    heal_verdict,         \* the returned tuple
    \* VisualAIServicer._record_inference_time under concurrent requests, for
    \* the latency window of one provider
    lat_heap,             \* the list objects: reference -> contents (or Free)
    lat_window,           \* reference held by self.inference_times[model_name]
    lat_thread,           \* per worker thread: position and its local `times`
    lat_count,            \* number of appends executed so far
    lat_overlapped,       \* two calls have been in flight at the same time
    \* VisualAIServicer: the request handlers
    models,               \* keys of self.models: the encoders that loaded
    inference_times,      \* self.inference_times: model -> latency window
    request,              \* the request handled last
    outcome,              \* how its handler completed
    prev_outcome,         \* outcome of the request before, if it was the same request
    n_requests,           \* requests handled so far
    \* calculate_changed_regions (utils.py)
    grid_H, grid_W,       \* height and width of the two frames
    grid_size,            \* the grid_size argument
    pixel_threshold,      \* the threshold argument, in hundredths
    grid_k,               \* cells visited so far, row by row
    considered,           \* the cells sliced out of the frames so far
    changes,              \* the list being returned
    grid_pc,              \* position in the function
    \* SigLIPEncoder.find_by_description
    img_H, img_W,         \* height and width of the image
    search_grid,          \* the grid_size argument
    max_results,          \* the max_results argument
    search_k,             \* cells visited so far
    results,              \* the list of scored regions
    found,                \* the returned list
    search_pc,            \* position in the function
    \* DINOv2Encoder.compare, BaseEncoder.compare, VJEPA2Encoder.compare_sequences
    cmp_similarity,       \* the cosine similarity of the two embeddings
    cmp_threshold,        \* the threshold argument of DINOv2Encoder.compare
    dino_result,          \* what DINOv2Encoder.compare returned
    base_result,          \* what BaseEncoder.compare returned
    seq_result,           \* what compare_sequences returned
    \* VJEPA2Encoder.analyze_change
    chg_similarity,       \* the cosine similarity of before and after
    chg_action,           \* the action argument, a sequence of words
    chg_result,           \* the returned tuple
    \* The loop of VisualAIServicer.BatchCompare
    batch_pairs,          \* request.pairs
    batch_encoder,        \* the routed encoder
    batch_k,              \* pairs done so far
    batch_results,        \* results
    batch_total_sim,      \* total_sim
    batch_matches,        \* matches
    batch_response        \* the response and status, once the handler is done

routerVars == <<available_models, iter_order, call, result, prev_result>>
stabVars == <<frames, threshold, pc, similarities, walk_i, stable_count, stable_at, verdict,
              simple_pc, simple_verdict>>
healVars == <<transition_sim, final_sim, heal_threshold, use_hf, heal_pc, heal_verdict>>
latVars == <<lat_heap, lat_window, lat_thread, lat_count, lat_overlapped>>
svcVars == <<models, inference_times, request, outcome, prev_outcome, n_requests>>
gridVars == <<grid_H, grid_W, grid_size, pixel_threshold, grid_k, considered, changes,
              grid_pc>>
searchVars == <<img_H, img_W, search_grid, max_results, search_k, results, found,
                search_pc>>
cmpVars == <<cmp_similarity, cmp_threshold, dino_result, base_result, seq_result>>
chgVars == <<chg_similarity, chg_action, chg_result>>
batchVars == <<batch_pairs, batch_encoder, batch_k, batch_results, batch_total_sim,
               batch_matches, batch_response>>
\* The variables of the grid, search, comparison, change and batch components.
funVars == <<gridVars, searchVars, cmpVars, chgVars, batchVars>>
vars == <<routerVars, stabVars, healVars, latVars, svcVars, funVars>>

----------------------------------------------------------------------------
(* Model router                                                            *)

\* Largest frame_count the model passes to route(); 0..MaxFrameCount.
MaxFrameCount == 2

Models == {"dinov2", "vjepa2", "siglip"}

TaskType == {"compare_simple", "compare_sequence", "stability_check",
             "healing_validation", "embedding", "text_search",
             "visual_regression", "change_analysis"}

\* explicit_model = None (or the empty string: line 100 tests its truth value)
NoModel == "None"
NoCall == [task_type |-> "none"]
NoResult == "no_result"
NoVerdict == [is_stable |-> FALSE, stable_at |-> -1, score_sum |-> 0, score_len |-> 0,
              activity |-> "none"]
\* detect_stability(frames, threshold: float = 0.98)
DefaultStabilityThreshold == 98
\* raise RuntimeError("No models available")
RuntimeError == "RuntimeError: No models available"

\* Every member of TaskType has an entry, so the default of
\* ROUTING_TABLE.get(task_type, "dinov2") at line 104 is never taken.
ROUTING_TABLE ==
    [t \in TaskType |->
        CASE t = "compare_simple"     -> "dinov2"
          [] t = "compare_sequence"   -> "vjepa2"
          [] t = "stability_check"    -> "vjepa2"
          [] t = "healing_validation" -> "vjepa2"
          [] t = "embedding"          -> "dinov2"
          [] t = "text_search"        -> "siglip"
          [] t = "visual_regression"  -> "dinov2"
          [] t = "change_analysis"    -> "vjepa2"]

\* All sequences that list every element of S exactly once.
Orders(S) ==
    {s \in [1..Cardinality(S) -> S] : \A i, j \in 1..Cardinality(S) : s[i] = s[j] => i = j}

\* list(self.available_models)[0]: the first element the set object yields.
\* The order depends on the string hash seed of the process and on the
\* insertion history of the set; iter_order records it for one router object.
FirstAvailable(order) == order[1]

\* Fallback that goes straight to "whatever is available".
Fallback_NoDinoStep(preferred, avail, order) ==
    IF avail # {} THEN FirstAvailable(order) ELSE RuntimeError

\* Fallback that answers the fast model instead of raising.
Fallback_NeverRaises(preferred, avail, order) ==
    IF preferred = "vjepa2" /\ "dinov2" \in avail THEN "dinov2"
    ELSE IF preferred = "siglip" /\ "dinov2" \in avail THEN "dinov2"
    ELSE IF avail # {} THEN FirstAvailable(order)
    ELSE "dinov2"

\* Lines 106-119: the preferred model is not available.
Fallback(preferred, avail, order) ==
    IF preferred = "vjepa2" /\ "dinov2" \in avail THEN "dinov2"
    ELSE IF preferred = "siglip" /\ "dinov2" \in avail THEN "dinov2"
    ELSE IF avail # {} THEN FirstAvailable(order)
    ELSE RuntimeError

\* Special rules without the multi-frame rule.
SpecialRules_NoMultiFrame(task_type, preferred, frame_count, needs_high_accuracy, avail) ==
    IF needs_high_accuracy /\ task_type = "healing_validation" /\ "vjepa2" \in avail
    THEN "vjepa2"
    ELSE preferred

\* Special rules whose accuracy rule applies to every task.
SpecialRules_AccuracyAnyTask(task_type, preferred, frame_count, needs_high_accuracy, avail) ==
    IF frame_count > 1 /\ "vjepa2" \in avail THEN "vjepa2"
    ELSE IF needs_high_accuracy /\ "vjepa2" \in avail THEN "vjepa2"
    ELSE preferred

\* Lines 121-131: the preferred model is available.
SpecialRules(task_type, preferred, frame_count, needs_high_accuracy, avail) ==
    IF frame_count > 1 /\ "vjepa2" \in avail THEN "vjepa2"
    ELSE IF needs_high_accuracy /\ task_type = "healing_validation" /\ "vjepa2" \in avail
         THEN "vjepa2"
    ELSE preferred

\* Explicit choice honoured only when it is not loaded.
ExplicitWins_Inverted(explicit_model, avail) ==
    explicit_model # NoModel /\ explicit_model \notin avail

\* Explicit choice honoured without looking at the availability set.
ExplicitWins_Unchecked(explicit_model, avail) ==
    explicit_model # NoModel

\* Line 100: if explicit_model and explicit_model in self.available_models
ExplicitWins(explicit_model, avail) ==
    explicit_model # NoModel /\ explicit_model \in avail

\* ModelRouter.route
Route(task_type, explicit_model, frame_count, needs_high_accuracy, avail, order) ==
    IF ExplicitWins(explicit_model, avail) THEN explicit_model
    ELSE LET preferred == ROUTING_TABLE[task_type]
         IN  IF preferred \notin avail
             THEN Fallback(preferred, avail, order)
             ELSE SpecialRules(task_type, preferred, frame_count, needs_high_accuracy, avail)

RouterInit ==
    /\ available_models \in SUBSET Models
    /\ iter_order \in Orders(available_models)
    /\ call = NoCall
    /\ result = NoResult
    /\ prev_result = NoResult

\* ModelRouter.__init__ run again on the same loaded models (a restart of the
\* service, or another replica of it): the set holds the same elements, and
\* the new set object iterates in whatever order its process gives it.
Construct ==
    /\ available_models' = available_models
    /\ iter_order' \in Orders(available_models')
    /\ UNCHANGED <<call, result, prev_result>>

\* One call of ModelRouter.route on the current router object.
RouteCall ==
    \E task_type \in TaskType, explicit_model \in Models \cup {NoModel},
       frame_count \in 0..MaxFrameCount, needs_high_accuracy \in BOOLEAN :
        LET args == [task_type |-> task_type, explicit_model |-> explicit_model,
                     frame_count |-> frame_count,
                     needs_high_accuracy |-> needs_high_accuracy]
        IN  /\ call' = args
            /\ result' = Route(task_type, explicit_model, frame_count,
                               needs_high_accuracy, available_models, iter_order)
            /\ prev_result' = IF call = args THEN result ELSE NoResult
            /\ UNCHANGED <<available_models, iter_order>>

----------------------------------------------------------------------------
(* Properties of the model router                                          *)

Called == call # NoCall
Returned == Called /\ result # RuntimeError
NoOverride == Called /\ call.explicit_model = NoModel
SequenceTasks == {"compare_sequence", "stability_check", "healing_validation",
                  "change_analysis"}
FastTasks == {"compare_simple", "embedding", "visual_regression"}

\* C1: whenever route is called with an explicit_model that is set and is a
\* member of the availability set, it returns exactly that model, whatever
\* the task, the frame count and the accuracy flag are.
C1_ExplicitOverrideWins ==
    (Called /\ call.explicit_model # NoModel /\ call.explicit_model \in available_models)
        => result = call.explicit_model

\* An available override beats the table, the multi-frame rule and the
\* accuracy rule at once.
C1_Witness ==
    /\ Called
    /\ call.explicit_model = "siglip"
    /\ "siglip" \in available_models
    /\ "vjepa2" \in available_models
    /\ call.task_type = "healing_validation"
    /\ call.frame_count > 1
    /\ call.needs_high_accuracy
    /\ result = "siglip"

\* C2: whenever route returns a value (does not raise), that value is a
\* member of the availability set.
C2_ResultAvailable ==
    Returned => result \in available_models

\* The multi-frame upgrade was taken while the requested override was not
\* loaded.
C2_Witness ==
    /\ Returned
    /\ call.explicit_model # NoModel
    /\ call.explicit_model \notin available_models
    /\ call.frame_count > 1
    /\ ROUTING_TABLE[call.task_type] = "dinov2"
    /\ result = "vjepa2"

\* C3: with an empty availability set every call of route raises the
\* no-models error and returns no provider.
C3_EmptyRaises ==
    (Called /\ available_models = {}) => result = RuntimeError

\* A call with an override set, several frames and the accuracy flag raised
\* on the empty set.
C3_Witness ==
    /\ Called
    /\ available_models = {}
    /\ call.explicit_model # NoModel
    /\ call.frame_count > 1
    /\ call.needs_high_accuracy
    /\ result = RuntimeError

\* C4: with no explicit override, vjepa2 not available and dinov2 available,
\* route returns dinov2 for every sequence-biased task, every frame count and
\* every accuracy flag.
C4_SequenceFallback ==
    (/\ NoOverride
     /\ "vjepa2" \notin available_models
     /\ "dinov2" \in available_models
     /\ call.task_type \in SequenceTasks)
        => result = "dinov2"

\* The fallback chose dinov2 although siglip was loaded as well.
C4_Witness ==
    /\ NoOverride
    /\ available_models = {"dinov2", "siglip"}
    /\ iter_order[1] = "siglip"
    /\ call.task_type = "healing_validation"
    /\ call.frame_count > 1
    /\ call.needs_high_accuracy
    /\ result = "dinov2"

\* C5: two calls of route with the same arguments and the same availability
\* set return the same provider.
C5_Deterministic ==
    prev_result # NoResult => result = prev_result

\* C6 as stated: with no explicit override, frame_count > 1 and vjepa2
\* available, route returns vjepa2 for every task, also when the task's
\* table-preferred provider is unavailable.
C6_MultiFrameAlways ==
    (NoOverride /\ call.frame_count > 1 /\ "vjepa2" \in available_models)
        => result = "vjepa2"

\* C6 amended: with no explicit override, frame_count > 1, vjepa2 available
\* and the task's table-preferred provider available, route returns vjepa2.
C6_MultiFrameWhenPreferredAvailable ==
    (/\ NoOverride
     /\ call.frame_count > 1
     /\ "vjepa2" \in available_models
     /\ ROUTING_TABLE[call.task_type] \in available_models)
        => result = "vjepa2"

\* A multi-frame text search went to vjepa2 although siglip, its table
\* entry, was loaded.
C6_Witness ==
    /\ NoOverride
    /\ call.frame_count > 1
    /\ call.task_type = "text_search"
    /\ "siglip" \in available_models
    /\ "vjepa2" \in available_models
    /\ result = "vjepa2"

\* C7: with no explicit override, frame_count <= 1 and the task's
\* table-preferred provider available, route returns the fixed table entry
\* (dinov2 for compare_simple, embedding, visual_regression; vjepa2 for
\* compare_sequence, stability_check, healing_validation, change_analysis;
\* siglip for text_search), with the accuracy flag set or not.
C7_TableDefault ==
    (/\ NoOverride
     /\ call.frame_count <= 1
     /\ ROUTING_TABLE[call.task_type] \in available_models)
        => /\ call.task_type \in FastTasks => result = "dinov2"
           /\ call.task_type \in SequenceTasks => result = "vjepa2"
           /\ call.task_type = "text_search" => result = "siglip"

\* The accuracy flag was set for a fast task while vjepa2 was loaded, and the
\* table entry was still returned.
C7_Witness ==
    /\ NoOverride
    /\ call.frame_count <= 1
    /\ call.needs_high_accuracy
    /\ call.task_type = "compare_simple"
    /\ available_models = Models
    /\ result = "dinov2"

----------------------------------------------------------------------------
(* Temporal analyzer: VJEPA2Encoder.detect_stability                       *)

\* Most frames in one call; frames are lists of 0..MaxFrames embeddings.
MaxFrames == 6
\* The encoder yields one of the embeddings 0..MaxEmbedding for a frame.
MaxEmbedding == 2

Embeddings == 0..MaxEmbedding
Thresholds == {DefaultStabilityThreshold, 99, 100}

\* Cosine similarity of two embeddings, in hundredths, by how far apart the
\* embeddings are: identical embeddings have similarity 1.0.
CosTable == <<100, 99, 90, 70, 50>>

Abs(x) == IF x < 0 THEN -x ELSE x

\* F.cosine_similarity(embeddings[i], embeddings[i+1], dim=-1).item()
CosineSimilarity(a, b) == CosTable[Abs(a - b) + 1]

RECURSIVE Sum(_)
Sum(s) == IF s = <<>> THEN 0 ELSE Head(s) + Sum(Tail(s))

\* Lines 181-185: similarities of consecutive frames.
ConsecutiveSimilarities(fs) ==
    [i \in 1..(Len(fs) - 1) |-> CosineSimilarity(fs[i], fs[i + 1])]

\* The comparison of line 192 as a strict one.
CountAfter_Strict(sim, thr, count) ==
    IF sim > thr THEN count + 1 ELSE 0

\* Lines 192-193, 197: the counter after one similarity.
CountAfter(sim, thr, count) ==
    IF sim >= thr THEN count + 1 ELSE 0

\* The walk without line 198: a recorded index outlives the break of its run.
StableAtAfter_KeepsOnBreak(sim, thr, count, at, i) ==
    IF sim >= thr /\ count + 1 >= 2 /\ at = -1 THEN i ELSE at

\* Lines 192-198: stable_at after the similarity at loop index i; count is
\* the counter before this similarity.
StableAtAfter(sim, thr, count, at, i) ==
    IF sim >= thr
    THEN IF count + 1 >= 2 /\ at = -1 THEN i ELSE at
    ELSE -1

\* Line 200.
IsStable(count) == count >= 2

\* Lines 205-214: 1 - sum/len compared with 0.02, 0.10, 0.30, both sides
\* multiplied by 100 * len.
Activity(sum, len) ==
    IF 100 * len - sum < 2 * len THEN "static"
    ELSE IF 100 * len - sum < 10 * len THEN "minor_motion"
    ELSE IF 100 * len - sum < 30 * len THEN "animation"
    ELSE "significant_change"

\* Line 173: return True, 0, 1.0, "Single frame - assuming stable"
SingleFrameVerdict ==
    [is_stable |-> TRUE, stable_at |-> 0, score_sum |-> 100, score_len |-> 1,
     activity |-> "Single frame - assuming stable"]

\* Lines 200-216: the returned tuple; the score is score_sum / score_len.
WalkVerdict(n, sims, count, at) ==
    [is_stable |-> IsStable(count),
     stable_at |-> IF at >= 0 THEN at ELSE n - 1,
     score_sum |-> IF sims # <<>> THEN Sum(sims) ELSE 100,
     score_len |-> IF sims # <<>> THEN Len(sims) ELSE 1,
     activity |-> IF sims # <<>> THEN Activity(Sum(sims), Len(sims))
                  ELSE Activity(100, 1)]

RECURSIVE SeqsUpTo(_, _)
\* All sequences over S of length at most n.
SeqsUpTo(S, n) ==
    IF n = 0 THEN {<<>>}
    ELSE LET shorter == SeqsUpTo(S, n - 1)
         IN  shorter \cup {Append(s, x) : s \in {t \in shorter : Len(t) = n - 1}, x \in S}

\* detect_stability is entered with some frames and some threshold.
StabInit ==
    /\ frames \in SeqsUpTo(Embeddings, MaxFrames)
    /\ threshold \in Thresholds
    /\ pc = "start"
    /\ similarities = <<>>
    /\ walk_i = 0
    /\ stable_count = 0
    /\ stable_at = -1
    /\ verdict = NoVerdict
    /\ simple_pc = "start"
    /\ simple_verdict = NoVerdict

\* Lines 172-173: fewer than two frames.
SingleFrame ==
    /\ pc = "start"
    /\ Len(frames) < 2
    /\ verdict' = SingleFrameVerdict
    /\ pc' = "done"
    /\ UNCHANGED <<frames, threshold, similarities, walk_i, stable_count, stable_at,
                   simple_pc, simple_verdict>>

\* Lines 175-189: encode, compare consecutive frames, enter the walk.
Compare ==
    /\ pc = "start"
    /\ Len(frames) >= 2
    /\ similarities' = ConsecutiveSimilarities(frames)
    /\ stable_count' = 0
    /\ stable_at' = -1
    /\ walk_i' = 1
    /\ pc' = "walk"
    /\ UNCHANGED <<frames, threshold, verdict, simple_pc, simple_verdict>>

\* Lines 191-198: one iteration of the walk (loop index i = walk_i - 1).
WalkStep ==
    /\ pc = "walk"
    /\ walk_i <= Len(similarities)
    /\ stable_count' = CountAfter(similarities[walk_i], threshold, stable_count)
    /\ stable_at' = StableAtAfter(similarities[walk_i], threshold, stable_count,
                                  stable_at, walk_i - 1)
    /\ walk_i' = walk_i + 1
    /\ UNCHANGED <<frames, threshold, pc, similarities, verdict, simple_pc, simple_verdict>>

\* Lines 200-216: the walk is over, the verdict is returned.
Finish ==
    /\ pc = "walk"
    /\ walk_i > Len(similarities)
    /\ verdict' = WalkVerdict(Len(frames), similarities, stable_count, stable_at)
    /\ pc' = "done"
    /\ UNCHANGED <<frames, threshold, similarities, walk_i, stable_count, stable_at,
                   simple_pc, simple_verdict>>

\* server.py line 320: all(s >= threshold for s in similarities[-2:]) when
\* there are at least two similarities, else avg_sim >= threshold.
SimpleIsStable(sims, thr) ==
    IF Len(sims) >= 2
    THEN \A k \in (Len(sims) - 1)..Len(sims) : sims[k] >= thr
    ELSE Sum(sims) >= thr * Len(sims)

\* server.py lines 322-326: the first loop index i >= len(similarities) - 2
\* whose similarity is >= threshold, or len(frames) - 1 when there is none.
SimpleStableAt(n, sims, thr) ==
    LET hits == {i \in 0..(Len(sims) - 1) : i >= Len(sims) - 2 /\ sims[i + 1] >= thr}
    IN  IF hits = {} THEN n - 1
        ELSE CHOOSE i \in hits : \A j \in hits : i <= j

\* server.py line 328: "static" if avg_sim > 0.98 else "motion".
SimpleActivity(sum, len) == IF sum > 98 * len THEN "static" ELSE "motion"

\* server.py lines 305-330: VisualAIServicer._simple_stability.
SimpleStabilityVerdict(fs, thr) ==
    IF Len(fs) < 2
    THEN [is_stable |-> TRUE, stable_at |-> 0, score_sum |-> 100, score_len |-> 1,
          activity |-> "single_frame"]
    ELSE LET sims == ConsecutiveSimilarities(fs)
         IN  [is_stable |-> SimpleIsStable(sims, thr),
              stable_at |-> SimpleStableAt(Len(fs), sims, thr),
              score_sum |-> Sum(sims),
              score_len |-> Len(sims),
              activity |-> SimpleActivity(Sum(sims), Len(sims))]

\* The fallback of DetectStability (server.py lines 282-286) on these frames.
SimpleStability ==
    /\ simple_pc = "start"
    /\ simple_verdict' = SimpleStabilityVerdict(frames, threshold)
    /\ simple_pc' = "done"
    /\ UNCHANGED <<frames, threshold, pc, similarities, walk_i, stable_count, stable_at,
                   verdict>>

----------------------------------------------------------------------------
(* Properties of detect_stability                                          *)

Returned_Stability == pc = "done"

AllIdentical(fs) == \A i, j \in 1..Len(fs) : fs[i] = fs[j]

RECURSIVE TrailingRun(_, _, _)
\* Length of the longest run of similarities >= thr that ends at position k
\* of sims (0 when k = 0 or sims[k] is below thr).
TrailingRun(sims, k, thr) ==
    IF k = 0 \/ sims[k] < thr THEN 0 ELSE 1 + TrailingRun(sims, k - 1, thr)

\* C8: for n >= 1 identical embeddings and a threshold <= 1.0,
\* detect_stability reports is_stable = true, stability_score = 1.0 and the
\* activity label "static".
C8_IdenticalFramesStable ==
    (Returned_Stability /\ Len(frames) >= 1 /\ AllIdentical(frames) /\ threshold <= 100)
        => /\ verdict.is_stable
           /\ verdict.score_sum = 100 * verdict.score_len
           /\ verdict.activity = "static"

\* C9: for n >= 2 frames, is_stable is true exactly when the sequence of
\* similarities ends on at least two consecutive values >= threshold; during
\* the walk the counter is the length of the run of values >= threshold that
\* ends at the last value read, so a value equal to the threshold counts and
\* a value below it resets the counter to 0.
C9_StableIffEndsOnRun ==
    /\ pc = "walk" => stable_count = TrailingRun(similarities, walk_i - 1, threshold)
    /\ (Returned_Stability /\ Len(frames) >= 2)
        => LET n == Len(similarities)
           IN  verdict.is_stable <=>
                   (/\ n >= 2
                    /\ similarities[n] >= threshold
                    /\ similarities[n - 1] >= threshold)

\* A stable verdict whose final run holds a similarity exactly equal to the
\* threshold and follows a similarity below the threshold.
C9_Witness ==
    /\ Returned_Stability
    /\ Len(frames) >= 4
    /\ verdict.is_stable
    /\ similarities[Len(similarities)] = threshold
    /\ \E k \in 1..Len(similarities) : similarities[k] < threshold

\* C10: for n >= 2 frames, when the similarities end on a run of at least
\* two values >= threshold, stable_at is the (0-based) position of the second
\* value of that final run; otherwise stable_at = len(frames) - 1.  Four
\* similarities of 0.99 at threshold 0.98 give stable_at = 1.
C10_StableIndex ==
    (Returned_Stability /\ Len(frames) >= 2)
        => LET n == Len(similarities)
               run == TrailingRun(similarities, n, threshold)
           IN  /\ run >= 2 => verdict.stable_at = n - run + 1
               /\ run < 2 => verdict.stable_at = Len(frames) - 1
               /\ (similarities = <<99, 99, 99, 99>> /\ threshold = 98)
                      => verdict.stable_at = 1

\* A stable verdict after an earlier run of two values >= threshold that
\* broke: the index recorded for the earlier run is not the one reported.
C10_Witness ==
    /\ Returned_Stability
    /\ verdict.is_stable
    /\ LET n == Len(similarities)
           run == TrailingRun(similarities, n, threshold)
       IN  /\ \E k \in 1..(n - run - 2) :
                similarities[k] >= threshold /\ similarities[k + 1] >= threshold
           /\ verdict.stable_at = n - run + 1

\* motion_analysis of a DetectStability response, as the data model lists it.
ActivityLabels == {"static", "minor_motion", "animation", "significant_change"}

\* C11: every DetectStability verdict for n >= 1 frames carries one of the
\* four activity labels static, minor_motion, animation, significant_change,
\* on the native detect_stability path and on the _simple_stability path.
C11_ActivityLabelEnumerated ==
    /\ (Returned_Stability /\ Len(frames) >= 1) => verdict.activity \in ActivityLabels
    /\ (simple_pc = "done" /\ Len(frames) >= 1)
           => simple_verdict.activity \in ActivityLabels

----------------------------------------------------------------------------
(* Temporal analyzer: VJEPA2Encoder.validate_healing                       *)

\* Cosine similarities the two comparisons of lines 251-252 can yield.
Similarities == 0..100
\* validate_healing(..., threshold: float = 0.85) and other thresholds.
HealThresholds == {43, 81, 85, 100}

NoHealVerdict == [is_valid |-> FALSE, combined_sim |-> 0, state_confidence |-> 0,
                  analysis |-> "none"]

\* The weights of line 255 exchanged.
CombinedSim_WeightsSwapped(transition, final) == 7 * transition + 3 * final

\* Line 255: combined_sim = 0.3 * transition_sim + 0.7 * final_sim, in
\* thousandths (the similarities are in hundredths).
CombinedSim(transition, final) == 3 * transition + 7 * final

\* The comparison of line 257 as a strict one.
IsValid_Strict(combined, thr) == combined > 10 * thr

\* Line 257: is_valid = combined_sim >= threshold (combined in thousandths,
\* threshold in hundredths).
IsValid(combined, thr) == combined >= 10 * thr

\* The explanation chosen by the transition similarity instead of the final one.
Analysis_ByTransition(valid, transition, final, thr) ==
    IF valid THEN "validated"
    ELSE IF transition < thr THEN "failed"
    ELSE "uncertain"

\* Lines 260-266: which of the three explanations is produced.
\*   "validated":  Healing validated: final state matches expected
\*   "failed":     Healing failed: final state differs from expected
\*   "uncertain":  Healing uncertain: transition differs but final state similar
Analysis(valid, transition, final, thr) ==
    IF valid THEN "validated"
    ELSE IF final < thr THEN "failed"
    ELSE "uncertain"

\* Line 258: 0.9 with the real V-JEPA 2, 0.75 with the fallback encoder.
StateConfidence(hf) == IF hf THEN 90 ELSE 75

\* validate_healing is entered; the encoder has produced embeddings whose
\* similarities are transition_sim and final_sim.
HealInit ==
    /\ transition_sim \in Similarities
    /\ final_sim \in Similarities
    /\ heal_threshold \in HealThresholds
    /\ use_hf \in BOOLEAN
    /\ heal_pc = "start"
    /\ heal_verdict = NoHealVerdict

\* Lines 250-268.
ValidateHealing ==
    /\ heal_pc = "start"
    /\ LET combined == CombinedSim(transition_sim, final_sim)
           valid == IsValid(combined, heal_threshold)
       IN  heal_verdict' = [is_valid |-> valid,
                            combined_sim |-> combined,
                            state_confidence |-> StateConfidence(use_hf),
                            analysis |-> Analysis(valid, transition_sim, final_sim,
                                                  heal_threshold)]
    /\ heal_pc' = "done"
    /\ UNCHANGED <<transition_sim, final_sim, heal_threshold, use_hf>>

----------------------------------------------------------------------------
(* Latency window: VisualAIServicer._record_inference_time, thread by      *)
(* thread.  The gRPC server runs handlers on a thread pool                 *)
(* (server.py line 582, max_workers=4) and the method takes no lock, so    *)
(* the statements of concurrent calls interleave.                          *)

\* Requests in flight at once in the model (at most the pool's 4 workers).
MaxInFlight == 2
\* Calls of _record_inference_time in one behaviour.
MaxRecords == 102
\* server.py line 101: if len(times) > 100
WindowLimit == 100

Workers == 1..MaxInFlight
\* References of list objects: the window's list, one list a worker holds
\* and the copy it is making, per worker.
Refs == 0..(MaxInFlight + 1)
Free == <<-1>>
NoRef == -1

\* server.py line 102: times[-100:], a new list object.
Last100(s) ==
    IF Len(s) <= WindowLimit THEN s
    ELSE [i \in 1..WindowLimit |-> s[Len(s) - WindowLimit + i]]

\* The whole method run without interruption on a window's contents.
RecordInferenceTime(window, elapsed) ==
    LET times == Append(window, elapsed)
    IN  IF Len(times) > WindowLimit THEN Last100(times) ELSE times

IdleThread == [pc |-> "idle", times |-> NoRef]

\* References some thread or the dictionary still holds, given them.
Live(window, threads) == {window} \cup {threads[w].times : w \in Workers}

\* List objects nobody refers to are gone.
Collect(heap, window, threads) ==
    [r \in Refs |-> IF r \in Live(window, threads) THEN heap[r] ELSE Free]

\* server.py lines 59-84: self.inference_times[name] = [] for a loaded model.
LatInit ==
    /\ lat_heap = [r \in Refs |-> IF r = 0 THEN <<>> ELSE Free]
    /\ lat_window = 0
    /\ lat_thread = [w \in Workers |-> IdleThread]
    /\ lat_count = 0
    /\ lat_overlapped = FALSE

\* Line 98: times = self.inference_times.get(model_name, [])
LatGet(w) ==
    /\ lat_thread[w].pc = "idle"
    /\ lat_count + Cardinality({v \in Workers : lat_thread[v].pc \in {"got"}}) < MaxRecords
    /\ lat_thread' = [lat_thread EXCEPT ![w] = [pc |-> "got", times |-> lat_window]]
    /\ lat_overlapped' = (lat_overlapped \/ \E v \in Workers : lat_thread[v].pc # "idle")
    /\ UNCHANGED <<lat_heap, lat_window, lat_count>>

\* Line 99: times.append(elapsed); the sample is numbered by its arrival.
LatAppend(w) ==
    /\ lat_thread[w].pc = "got"
    /\ lat_count' = lat_count + 1
    /\ lat_heap' = [lat_heap EXCEPT ![lat_thread[w].times] = Append(@, lat_count + 1)]
    /\ lat_thread' = [lat_thread EXCEPT ![w].pc = "appended"]
    /\ UNCHANGED <<lat_window, lat_overlapped>>

\* Line 101: if len(times) > 100
LatCheck(w) ==
    /\ lat_thread[w].pc = "appended"
    /\ lat_thread' = [lat_thread EXCEPT ![w].pc =
                         IF Len(lat_heap[lat_thread[w].times]) > WindowLimit
                         THEN "slice" ELSE "store"]
    /\ UNCHANGED <<lat_heap, lat_window, lat_count, lat_overlapped>>

\* Line 102: times = times[-100:]
LatSlice(w) ==
    /\ lat_thread[w].pc = "slice"
    /\ LET old == lat_thread[w].times
           new == CHOOSE r \in Refs : lat_heap[r] = Free
                                      /\ \A q \in Refs : lat_heap[q] = Free => r <= q
           threads == [lat_thread EXCEPT ![w] = [pc |-> "store", times |-> new]]
       IN  /\ lat_thread' = threads
           /\ lat_heap' = Collect([lat_heap EXCEPT ![new] = Last100(lat_heap[old])],
                                  lat_window, threads)
    /\ UNCHANGED <<lat_window, lat_count, lat_overlapped>>

\* Line 103: self.inference_times[model_name] = times, and the call returns.
LatStore(w) ==
    /\ lat_thread[w].pc = "store"
    /\ LET threads == [lat_thread EXCEPT ![w] = IdleThread]
           window == lat_thread[w].times
       IN  /\ lat_window' = window
           /\ lat_thread' = threads
           /\ lat_heap' = Collect(lat_heap, window, threads)
    /\ UNCHANGED <<lat_count, lat_overlapped>>

----------------------------------------------------------------------------
(* The unified service: VisualAIServicer's request handlers (server.py).   *)
(* A handler is one step: it routes, validates, loads, calls the encoder,  *)
(* records the latency and completes.  What the image loader and the       *)
(* encoder do with a request's data is part of the request: `fault` says   *)
(* whether load_and_preprocess or the encoder's forward pass raises, `sim` *)
(* is the cosine similarity the encoder's embeddings give (in hundredths). *)

\* Requests handled in one behaviour.
MaxRequests == 2
\* Frames in a ValidateHealing or DetectStability request.
MaxRequestFrames == 3
\* Pairs in a BatchCompare request.
MaxPairs == 2

Operations == {"CompareFrames", "ValidateHealing", "DetectStability", "FindByDescription",
               "GenerateEmbedding", "BatchCompare", "AnalyzeChange"}
EncoderOutputs == {60, 99}
IO == {[fault |-> "none", sim |-> x] : x \in EncoderOutputs}
          \cup {[fault |-> f, sim |-> 0] : f \in {"load", "encoder"}}
BatchIO == {[fault |-> "none", sim |-> 99], [fault |-> "encoder", sim |-> 0]}
\* request.settings.similarity_threshold or 0.85 (lines 139, 210, 440), unset
DefaultSimilarityThreshold == 85

NoRequest == [op |-> "none", model |-> NoModel, n_frames |-> 0, has_expected |-> FALSE,
              io |-> <<>>]
EmptyVerdict == [flag |-> FALSE, score |-> 0, text |-> "", number |-> 0]
NoOutcome == [status |-> "none", details |-> "", response |-> "none",
              model_used |-> NoModel, verdict |-> EmptyVerdict, encoder_calls |-> 0]

\* The methods of the encoder classes the handlers call or test with hasattr
\* (models/dinov2.py, models/vjepa2.py, models/siglip.py).
HasAttr(encoder, attr) ==
    CASE encoder = "dinov2" -> attr \in {"encode_single", "compare"}
      [] encoder = "vjepa2" -> attr \in {"encode_single", "detect_stability",
                                         "validate_healing", "analyze_change"}
      [] encoder = "siglip" -> attr \in {"encode_single", "find_by_description"}
      [] OTHER -> FALSE

\* A _get_model that sends a request away from a provider that already has
\* latency samples to a loaded one that has none.
GetModel_LeastLoaded(task_type, explicit_model) ==
    LET routed == Route(task_type, explicit_model, 1, FALSE, available_models, iter_order)
        unused == {m \in models : inference_times[m] = <<>>}
        model_name == IF routed \in models /\ inference_times[routed] # <<>> /\ unused # {}
                      THEN CHOOSE m \in unused : TRUE
                      ELSE routed
    IN  [model_name |-> model_name,
         encoder |-> IF model_name \in models THEN model_name ELSE NoModel]

\* Lines 91-94: _get_model; self.models.get(model_name) gives None for a name
\* that is not loaded.  A raise of route leaves model_name = RuntimeError.
GetModel(task_type, explicit_model) ==
    LET model_name == Route(task_type, explicit_model, 1, FALSE, available_models, iter_order)
    IN  [model_name |-> model_name,
         encoder |-> IF model_name \in models THEN model_name ELSE NoModel]

\* Lines 117-121, 426-430: CompareFrames and BatchCompare know MODEL_DINOV2 and
\* MODEL_VJEPA2 only; any other value of request.model leaves explicit_model None.
ExplicitOfCompare(model) == IF model \in {"dinov2", "vjepa2"} THEN model ELSE NoModel

\* The ways a handler completes.
Completed(model_name, fields, calls) ==
    [status |-> "OK", details |-> "", response |-> "full", model_used |-> model_name,
     verdict |-> fields, encoder_calls |-> calls]
Rejected(status, details, model_name, calls) ==
    [status |-> status, details |-> details, response |-> "empty",
     model_used |-> model_name, verdict |-> EmptyVerdict, encoder_calls |-> calls]
\* route raised inside _get_model, outside the handler's try block: the
\* handler sets no status and returns no response.
Raised ==
    [status |-> "not set", details |-> RuntimeError, response |-> "none",
     model_used |-> NoModel, verdict |-> EmptyVerdict, encoder_calls |-> 0]
NoEncoder(model_name) == Rejected("UNAVAILABLE", "No encoder available", model_name, 0)
Internal(model_name, calls) == Rejected("INTERNAL", "str(e)", model_name, calls)

\* models/dinov2.py lines 113-120: the analysis of compare.
CompareAnalysis(sim) ==
    IF sim > 95 THEN "Frames are nearly identical"
    ELSE IF sim > 85 THEN "Frames are semantically similar with minor differences"
    ELSE IF sim > 70 THEN "Frames have noticeable differences"
    ELSE "Frames are significantly different"

Min(a, b) == IF a <= b THEN a ELSE b
Max(a, b) == IF a >= b THEN a ELSE b

\* Lines 112-175.
CompareFramesOutcome(req) ==
    LET got == GetModel("compare_simple", ExplicitOfCompare(req.model))
        name == got.model_name
        x == req.io[1]
    IN  IF name = RuntimeError THEN Raised
        ELSE IF got.encoder = NoModel THEN NoEncoder(name)
        ELSE IF x.fault = "load" THEN Internal(name, 0)
        \* line 140: encoder.compare on a class without it is an AttributeError
        ELSE IF ~HasAttr(got.encoder, "compare") THEN Internal(name, 0)
        ELSE IF x.fault = "encoder" THEN Internal(name, 1)
        ELSE Completed(name, [flag |-> x.sim >= DefaultSimilarityThreshold,
                              score |-> x.sim, text |-> CompareAnalysis(x.sim),
                              number |-> 0], 1)

\* Lines 205-208: how many frames go to before_frames, after_frames and
\* expected_frames.
BeforeCount(n) == Min(n, Max(1, n \div 2))
AfterCount(n) == n - BeforeCount(n)
ExpectedCount(n, has_expected) == IF has_expected THEN 1 ELSE AfterCount(n)

\* Lines 177-251.
ValidateHealingOutcome(req) ==
    LET got == GetModel("healing_validation", NoModel)
        name == got.model_name
        x == req.io[1]
        n == req.n_frames
    IN  IF name = RuntimeError THEN Raised
        ELSE IF got.encoder = NoModel THEN NoEncoder(name)
        ELSE IF n = 0 THEN Rejected("INVALID_ARGUMENT", "No frames provided", name, 0)
        ELSE IF x.fault = "load" THEN Internal(name, 0)
        ELSE IF HasAttr(got.encoder, "validate_healing")
        THEN \* vjepa2.py lines 240-248 inside validate_healing
             IF x.fault = "encoder" THEN Internal(name, 1)
             \* line 244: torch.stack of an empty list raises
             ELSE IF ExpectedCount(n, req.has_expected) = 0 THEN Internal(name, 1)
             \* line 247: after_frames[-1] of an empty list raises
             ELSE IF AfterCount(n) = 0 THEN Internal(name, 1)
             ELSE LET combined == CombinedSim(x.sim, x.sim)
                      valid == IsValid(combined, DefaultSimilarityThreshold)
                  IN  Completed(name, [flag |-> valid, score |-> combined,
                                       text |-> Analysis(valid, x.sim, x.sim,
                                                         DefaultSimilarityThreshold),
                                       number |-> StateConfidence(use_hf)], 1)
        ELSE \* lines 219-224; after_frames[-1] is evaluated before the call
             IF AfterCount(n) = 0 THEN Internal(name, 0)
             ELSE IF x.fault = "encoder" THEN Internal(name, 1)
             ELSE Completed(name, [flag |-> x.sim >= DefaultSimilarityThreshold,
                                   score |-> x.sim,
                                   text |-> "Simple comparison (V-JEPA 2 not available)",
                                   number |-> 70], 2)

\* vjepa2.py lines 187-198: the whole walk over the similarities.
RECURSIVE Walk(_, _, _, _, _)
Walk(sims, thr, i, count, at) ==
    IF i > Len(sims) THEN [count |-> count, at |-> at]
    ELSE Walk(sims, thr, i + 1, CountAfter(sims[i], thr, count),
              StableAtAfter(sims[i], thr, count, at, i - 1))

\* The response fields of DetectStability (lines 291-297) from the tuple.
StabilityFields(v) ==
    [flag |-> v.is_stable, score |-> v.score_sum, text |-> v.activity,
     number |-> v.stable_at]

\* Lines 253-303.
DetectStabilityOutcome(req) ==
    LET got == GetModel("stability_check", NoModel)
        name == got.model_name
        x == req.io[1]
        n == req.n_frames
        sims == [i \in 1..(n - 1) |-> x.sim]
        thr == DefaultStabilityThreshold
    IN  IF name = RuntimeError THEN Raised
        ELSE IF got.encoder = NoModel THEN NoEncoder(name)
        ELSE IF n = 0 THEN Rejected("INVALID_ARGUMENT", "No frames provided", name, 0)
        ELSE IF x.fault = "load" THEN Internal(name, 0)
        ELSE IF HasAttr(got.encoder, "detect_stability")
        THEN IF n < 2 THEN Completed(name, StabilityFields(SingleFrameVerdict), 1)
             ELSE IF x.fault = "encoder" THEN Internal(name, 1)
             ELSE LET w == Walk(sims, thr, 1, 0, -1)
                  IN  Completed(name, StabilityFields(WalkVerdict(n, sims, w.count, w.at)), 1)
        ELSE \* _simple_stability, lines 305-330
             IF n < 2
             THEN Completed(name, [flag |-> TRUE, score |-> 100, text |-> "single_frame",
                                   number |-> 0], 0)
             ELSE IF x.fault = "encoder" THEN Internal(name, 1)
             ELSE Completed(name, [flag |-> SimpleIsStable(sims, thr),
                                   score |-> Sum(sims),
                                   text |-> SimpleActivity(Sum(sims), Len(sims)),
                                   number |-> SimpleStableAt(n, sims, thr)], n)

\* Lines 332-374.
FindByDescriptionOutcome(req) ==
    LET got == GetModel("text_search", NoModel)
        name == got.model_name
        x == req.io[1]
    IN  IF name = RuntimeError THEN Raised
        ELSE IF got.encoder = NoModel \/ ~HasAttr(got.encoder, "find_by_description")
        THEN Rejected("UNAVAILABLE", "SigLIP not available", name, 0)
        ELSE IF x.fault = "load" THEN Internal(name, 0)
        ELSE IF x.fault = "encoder" THEN Internal(name, 1)
        ELSE Completed(name, [flag |-> TRUE, score |-> x.sim, text |-> "elements",
                              number |-> 1], 1)

\* Lines 376-420.
GenerateEmbeddingOutcome(req) ==
    LET got == GetModel("embedding", req.model)
        name == got.model_name
        x == req.io[1]
    IN  IF name = RuntimeError THEN Raised
        ELSE IF got.encoder = NoModel THEN NoEncoder(name)
        ELSE IF x.fault = "load" THEN Internal(name, 0)
        ELSE IF x.fault = "encoder" THEN Internal(name, 1)
        ELSE Completed(name, [flag |-> TRUE, score |-> x.sim, text |-> name,
                              number |-> 0], 1)

\* Lines 445-462: the loop of BatchCompare over pairs k..: the failure that
\* ends it, or the results it has collected.
RECURSIVE BatchLoop(_, _, _, _, _, _)
BatchLoop(name, encoder, io, k, total_sim, matches) ==
    IF k > Len(io)
    THEN Completed(name, [flag |-> TRUE, score |-> total_sim, text |-> "results",
                          number |-> Len(io)], Len(io))
    ELSE IF io[k].fault = "load" THEN Internal(name, k - 1)
    ELSE IF ~HasAttr(encoder, "compare") THEN Internal(name, k - 1)
    ELSE IF io[k].fault = "encoder" THEN Internal(name, k)
    ELSE BatchLoop(name, encoder, io, k + 1, total_sim + io[k].sim,
                   IF io[k].sim >= DefaultSimilarityThreshold THEN matches + 1 ELSE matches)

\* Lines 422-478.
BatchCompareOutcome(req) ==
    LET got == GetModel("compare_simple", ExplicitOfCompare(req.model))
        name == got.model_name
    IN  IF name = RuntimeError THEN Raised
        ELSE IF got.encoder = NoModel THEN NoEncoder(name)
        ELSE BatchLoop(name, got.encoder, req.io, 1, 0, 0)

\* vjepa2.py lines 289-304 with server.py lines 515-526: the severity of the
\* change list analyze_change returns.
NativeSeverity(sim) ==
    IF 100 - sim < 2 THEN "none"
    ELSE IF 100 - sim < 10 THEN "minor"
    ELSE IF 100 - sim < 30 THEN "moderate"
    ELSE "major"

\* Lines 480-541.
AnalyzeChangeOutcome(req) ==
    LET got == GetModel("change_analysis", NoModel)
        name == got.model_name
        x == req.io[1]
    IN  IF name = RuntimeError THEN Raised
        ELSE IF got.encoder = NoModel THEN NoEncoder(name)
        ELSE IF x.fault = "load" THEN Internal(name, 0)
        ELSE IF HasAttr(got.encoder, "analyze_change")
        THEN IF x.fault = "encoder" THEN Internal(name, 1)
             ELSE Completed(name, [flag |-> TRUE, score |-> 100 - x.sim,
                                   text |-> NativeSeverity(x.sim),
                                   number |-> IF use_hf THEN 85 ELSE 70], 1)
        \* line 504: the fallback calls encoder.compare
        ELSE IF ~HasAttr(got.encoder, "compare") THEN Internal(name, 0)
        ELSE IF x.fault = "encoder" THEN Internal(name, 1)
        ELSE Completed(name, [flag |-> TRUE, score |-> 100 - x.sim,
                              text |-> IF 100 - x.sim > 5 THEN "moderate" ELSE "none",
                              number |-> 70], 1)

\* The requests of each operation.
Single(op, model, n, has_expected) ==
    {[op |-> op, model |-> model, n_frames |-> n, has_expected |-> has_expected,
      io |-> <<x>>] : x \in IO}
Requests(op) ==
    CASE op = "CompareFrames" ->
             UNION {Single(op, m, 0, FALSE) : m \in Models \cup {NoModel}}
      [] op = "GenerateEmbedding" ->
             UNION {Single(op, m, 0, FALSE) : m \in Models \cup {NoModel}}
      [] op = "ValidateHealing" ->
             UNION {Single(op, NoModel, n, e) : n \in 0..MaxRequestFrames, e \in BOOLEAN}
      [] op = "DetectStability" ->
             UNION {Single(op, NoModel, n, FALSE) : n \in 0..MaxRequestFrames}
      [] op = "BatchCompare" ->
             {[op |-> op, model |-> m, n_frames |-> 0, has_expected |-> FALSE, io |-> io] :
                 m \in Models \cup {NoModel}, io \in SeqsUpTo(BatchIO, MaxPairs)}
      [] OTHER -> Single(op, NoModel, 0, FALSE)

\* Lines 51-89: the encoders that loaded, an empty window for each, and the
\* router built on their names.
ServiceInit ==
    /\ models \in SUBSET Models
    /\ available_models = models
    /\ iter_order \in Orders(available_models)
    /\ call = NoCall /\ result = NoResult /\ prev_result = NoResult
    /\ inference_times = [m \in models |-> <<>>]
    /\ request = NoRequest
    /\ outcome = NoOutcome
    /\ prev_outcome = NoOutcome
    /\ n_requests = 0

\* A handler has run on req and completed with out; on success it has
\* recorded the latency (_record_inference_time), here the request's number.
Handle(req, out) ==
    /\ n_requests < MaxRequests
    /\ n_requests' = n_requests + 1
    /\ request' = req
    /\ outcome' = out
    /\ prev_outcome' = IF request = req THEN outcome ELSE NoOutcome
    /\ inference_times' =
           IF out.status = "OK"
           THEN [inference_times EXCEPT ![out.model_used] =
                     RecordInferenceTime(@, n_requests + 1)]
           ELSE inference_times
    /\ UNCHANGED <<models, routerVars>>

CompareFrames == \E req \in Requests("CompareFrames") : Handle(req, CompareFramesOutcome(req))
ValidateHealingRequest ==
    \E req \in Requests("ValidateHealing") : Handle(req, ValidateHealingOutcome(req))
DetectStability ==
    \E req \in Requests("DetectStability") : Handle(req, DetectStabilityOutcome(req))
FindByDescription ==
    \E req \in Requests("FindByDescription") : Handle(req, FindByDescriptionOutcome(req))
GenerateEmbedding ==
    \E req \in Requests("GenerateEmbedding") : Handle(req, GenerateEmbeddingOutcome(req))
BatchCompare == \E req \in Requests("BatchCompare") : Handle(req, BatchCompareOutcome(req))
AnalyzeChange == \E req \in Requests("AnalyzeChange") : Handle(req, AnalyzeChangeOutcome(req))

----------------------------------------------------------------------------
(* Grid change detector: calculate_changed_regions (utils.py lines 154-200). *)
(* A cell's mean absolute difference is what the two frames hold there; it   *)
(* is chosen when the cell is visited.                                       *)

\* Largest height and width of a frame, in pixels.
MaxSide == 5
\* Largest grid_size.
MaxGrid == 2
\* Mean absolute differences a non-empty cell can have, in hundredths.
Diffs == {0, 5, 10, 15, 20, 40}
PixelThresholds == {10, 20}
\* The mean of an empty tensor; every comparison with it is false.
NaN == -1

\* Lines 174-175 and 181-184: the cell of row i and column j.
Cell(H, W, g, i, j) ==
    LET patch_h == H \div g
        patch_w == W \div g
    IN  [x |-> j * patch_w, y |-> i * patch_h, width |-> patch_w, height |-> patch_h]

\* The pixels a slice [y_start:y_end, x_start:x_end] of an H x W frame holds.
Pixels(c, H, W) ==
    {p \in (0..(W - 1)) \X (0..(H - 1)) :
        /\ c.x <= p[1] /\ p[1] < c.x + c.width
        /\ c.y <= p[2] /\ p[2] < c.y + c.height}

\* Line 189: (patch1 - patch2).abs().mean().item()
MeanAbsDiffs(c) == IF c.width = 0 \/ c.height = 0 THEN {NaN} ELSE Diffs

\* A cell emitted as soon as it differs at all.
Emits_AnyDifference(diff, thr) == diff # NaN /\ diff > 0

\* Line 191: if diff > threshold
Emits(diff, thr) == diff # NaN /\ diff > thr

\* Line 197: min(diff / threshold, 1.0), as a fraction in lowest terms when it
\* is 1 and as diff / threshold otherwise.
Significance(diff, thr) ==
    IF diff >= thr THEN [num |-> 1, den |-> 1] ELSE [num |-> diff, den |-> thr]

GridInit ==
    /\ grid_H \in 1..MaxSide
    /\ grid_W \in 1..MaxSide
    /\ grid_size \in 1..MaxGrid
    /\ pixel_threshold \in PixelThresholds
    /\ grid_k = 0
    /\ considered = <<>>
    /\ changes = <<>>
    /\ grid_pc = "loop"

\* Lines 179-198: one iteration of the two nested loops.
GridCell ==
    /\ grid_pc = "loop"
    /\ grid_k < grid_size * grid_size
    /\ LET c == Cell(grid_H, grid_W, grid_size, grid_k \div grid_size, grid_k % grid_size)
       IN  /\ considered' = Append(considered, c)
           /\ \E diff \in MeanAbsDiffs(c) :
                  changes' = IF Emits(diff, pixel_threshold)
                             THEN Append(changes,
                                         [x |-> c.x, y |-> c.y, width |-> c.width,
                                          height |-> c.height,
                                          significance |-> Significance(diff, pixel_threshold)])
                             ELSE changes
    /\ grid_k' = grid_k + 1
    /\ UNCHANGED <<grid_H, grid_W, grid_size, pixel_threshold, grid_pc>>

\* Line 200: return changes
GridReturn ==
    /\ grid_pc = "loop"
    /\ grid_k = grid_size * grid_size
    /\ grid_pc' = "done"
    /\ UNCHANGED <<grid_H, grid_W, grid_size, pixel_threshold, grid_k, considered, changes>>

----------------------------------------------------------------------------
(* Text search: SigLIPEncoder.find_by_description (siglip.py lines 130-202). *)
(* A patch's similarity to the text embedding is what the encoder gives for  *)
(* it; it is chosen when the patch is visited.                               *)

\* Largest height and width of the searched image, in pixels.
MaxSearchSide == 3
\* Largest grid_size of a search.
MaxSearchGrid == 2
\* Largest max_results.
MaxTopK == 5
\* Text-image cosine similarities, in hundredths.
Scores == {10, 20, 30}

\* Lines 164-167: the patch of row i and column j; min(., H) and min(., W)
\* clip the far edges.
Patch(H, W, g, i, j) ==
    LET patch_h == H \div g
        patch_w == W \div g
        y_start == i * patch_h
        y_end == Min((i + 1) * patch_h, H)
        x_start == j * patch_w
        x_end == Min((j + 1) * patch_w, W)
    IN  [x |-> x_start, y |-> y_start, width |-> x_end - x_start, height |-> y_end - y_start]

\* A sort into ascending order.
InsertDesc_Ascending(sorted, r) ==
    LET before == {k \in 1..Len(sorted) : sorted[k].similarity <= r.similarity}
        n == Cardinality(before)
    IN  SubSeq(sorted, 1, n) \o <<r>> \o SubSeq(sorted, n + 1, Len(sorted))

\* r put into a list that is in descending order of similarity, behind every
\* element whose similarity is not lower: the sort of line 201 is stable.
InsertDesc(sorted, r) ==
    LET before == {k \in 1..Len(sorted) : sorted[k].similarity >= r.similarity}
        n == Cardinality(before)
    IN  SubSeq(sorted, 1, n) \o <<r>> \o SubSeq(sorted, n + 1, Len(sorted))

\* Line 201: results.sort(key=lambda x: x[4], reverse=True)
RECURSIVE SortDesc(_)
SortDesc(rs) ==
    IF rs = <<>> THEN <<>>
    ELSE InsertDesc(SortDesc(SubSeq(rs, 1, Len(rs) - 1)), rs[Len(rs)])

\* Line 202: results[:max_results] for max_results >= 0
Top(rs, k) == SubSeq(rs, 1, Min(k, Len(rs)))

SearchInit ==
    /\ img_H \in 1..MaxSearchSide
    /\ img_W \in 1..MaxSearchSide
    /\ search_grid \in 1..MaxSearchGrid
    /\ max_results \in 0..MaxTopK
    /\ search_k = 0
    /\ results = <<>>
    /\ found = <<>>
    /\ search_pc = "loop"

\* The patch the loop is at.
CurrentPatch ==
    Patch(img_H, img_W, search_grid, search_k \div search_grid, search_k % search_grid)

\* Lines 161-198: one iteration; the patch is resized, encoded and scored.
SearchCell ==
    /\ search_pc = "loop"
    /\ search_k < search_grid * search_grid
    /\ CurrentPatch.width > 0 /\ CurrentPatch.height > 0
    /\ \E similarity \in Scores :
           results' = Append(results, [x |-> CurrentPatch.x, y |-> CurrentPatch.y,
                                       width |-> CurrentPatch.width,
                                       height |-> CurrentPatch.height,
                                       similarity |-> similarity])
    /\ search_k' = search_k + 1
    /\ UNCHANGED <<img_H, img_W, search_grid, max_results, found, search_pc>>

\* Lines 175-180: F.interpolate of a patch without rows or columns raises.
SearchRaise ==
    /\ search_pc = "loop"
    /\ search_k < search_grid * search_grid
    /\ CurrentPatch.width = 0 \/ CurrentPatch.height = 0
    /\ search_pc' = "raised"
    /\ UNCHANGED <<img_H, img_W, search_grid, max_results, search_k, results, found>>

\* Lines 200-202: sort and return the top results.
SearchReturn ==
    /\ search_pc = "loop"
    /\ search_k = search_grid * search_grid
    /\ found' = Top(SortDesc(results), max_results)
    /\ search_pc' = "done"
    /\ UNCHANGED <<img_H, img_W, search_grid, max_results, search_k, results>>

----------------------------------------------------------------------------
(* Similarity bands: DINOv2Encoder.compare (dinov2.py lines 95-122),         *)
(* BaseEncoder.compare (base.py lines 32-58) and                             *)
(* VJEPA2Encoder.compare_sequences (vjepa2.py lines 123-152), each given the *)
(* cosine similarity its embeddings have.                                    *)

\* Cosine similarities, in hundredths.
CosineRange == (-100)..100
CompareThresholds == {70, DefaultSimilarityThreshold, 95}
NoComparison == [similarity |-> 0, is_similar |-> FALSE, analysis |-> "none"]

\* base.py lines 50-57.
BaseCompareAnalysis(sim) ==
    IF sim > 95 THEN "Frames are nearly identical"
    ELSE IF sim > 85 THEN "Frames are semantically similar with minor differences"
    ELSE IF sim > 70 THEN "Frames have noticeable differences"
    ELSE "Frames are significantly different"

\* The second band of compare_sequences closed at 0.85.
CompareSequencesAnalysis_Inclusive(sim) ==
    IF sim > 95 THEN "Sequences are semantically equivalent - same state transition"
    ELSE IF sim >= 85 THEN "Sequences show similar transitions with minor variations"
    ELSE IF sim > 70 THEN "Sequences differ but may represent related states"
    ELSE "Sequences represent significantly different state transitions"

\* vjepa2.py lines 143-150.
CompareSequencesAnalysis(sim) ==
    IF sim > 95 THEN "Sequences are semantically equivalent - same state transition"
    ELSE IF sim > 85 THEN "Sequences show similar transitions with minor variations"
    ELSE IF sim > 70 THEN "Sequences differ but may represent related states"
    ELSE "Sequences represent significantly different state transitions"

CompareInit ==
    /\ cmp_similarity \in CosineRange
    /\ cmp_threshold \in CompareThresholds
    /\ dino_result = NoComparison
    /\ base_result = NoComparison
    /\ seq_result = NoComparison

\* dinov2.py lines 110-122.
DinoCompare ==
    /\ dino_result = NoComparison
    /\ dino_result' = [similarity |-> cmp_similarity,
                       is_similar |-> cmp_similarity >= cmp_threshold,
                       analysis |-> CompareAnalysis(cmp_similarity)]
    /\ UNCHANGED <<cmp_similarity, cmp_threshold, base_result, seq_result>>

\* base.py lines 46-58; the threshold is the literal 0.85.
BaseCompare ==
    /\ base_result = NoComparison
    /\ base_result' = [similarity |-> cmp_similarity,
                       is_similar |-> cmp_similarity >= 85,
                       analysis |-> BaseCompareAnalysis(cmp_similarity)]
    /\ UNCHANGED <<cmp_similarity, cmp_threshold, dino_result, seq_result>>

\* vjepa2.py lines 140-152; compare_sequences returns no is_similar.
CompareSequences ==
    /\ seq_result = NoComparison
    /\ seq_result' = [similarity |-> cmp_similarity,
                      is_similar |-> FALSE,
                      analysis |-> CompareSequencesAnalysis(cmp_similarity)]
    /\ UNCHANGED <<cmp_similarity, cmp_threshold, dino_result, base_result>>

----------------------------------------------------------------------------
(* Change analysis: VJEPA2Encoder.analyze_change (vjepa2.py lines 271-318), *)
(* given the cosine similarity of the two frames' embeddings.              *)

\* Words in an action label.
MaxWords == 2
\* Words an action label is made of; "prototype" holds the keyword "type".
Words == {"Click", "submit", "NAVIGATE", "prototype", "hover", "HOVER", "scroll"}
InteractiveKeywords == {"click", "submit", "navigate", "type"}
NoChange == [description |-> "none", changes |-> <<>>, expected |-> FALSE,
             confidence |-> 0]

\* str.lower() on a word.
Lower(word) ==
    CASE word = "Click" -> "click"
      [] word = "NAVIGATE" -> "navigate"
      [] word = "HOVER" -> "hover"
      [] OTHER -> word

\* kw in word, for the words and keywords above.
Within(kw, word) == kw = word \/ (kw = "type" /\ word = "prototype")

\* kw in action_lower: the label is its words joined by blanks.
Contains(action, kw) == \E k \in 1..Len(action) : Within(kw, Lower(action[k]))

\* The hover test made before the interactive one.
Expected_HoverFirst(action, magnitude) ==
    IF action = <<>> THEN TRUE
    ELSE IF Contains(action, "hover") THEN magnitude < 30
    ELSE IF \E kw \in InteractiveKeywords : Contains(action, kw) THEN magnitude > 2
    ELSE TRUE

\* Lines 306-313.
Expected(action, magnitude) ==
    IF action = <<>> THEN TRUE
    ELSE IF \E kw \in InteractiveKeywords : Contains(action, kw) THEN magnitude > 2
    ELSE IF Contains(action, "hover") THEN magnitude < 30
    ELSE TRUE

\* Lines 291-304: description and change list by magnitude.
ChangeDescription(magnitude) ==
    IF magnitude < 2 THEN "No significant visual change detected"
    ELSE IF magnitude < 10
    THEN "Minor visual changes (possible style or minor content update)"
    ELSE IF magnitude < 30
    THEN "Moderate visual changes (content or layout modification)"
    ELSE "Major visual changes (significant content or page change)"
ChangeList(magnitude) ==
    IF magnitude < 2 THEN <<>>
    ELSE IF magnitude < 10 THEN <<"minor_style_change">>
    ELSE IF magnitude < 30 THEN <<"content_change", "possible_layout_change">>
    ELSE <<"major_content_change", "possible_navigation">>

ChangeInit ==
    /\ chg_similarity \in CosineRange
    /\ chg_action \in SeqsUpTo(Words, MaxWords)
    /\ chg_result = NoChange

\* Lines 286-318.
AnalyzeChangeCall ==
    /\ chg_result = NoChange
    /\ LET change_magnitude == 100 - chg_similarity
       IN  chg_result' = [description |-> ChangeDescription(change_magnitude),
                          changes |-> ChangeList(change_magnitude),
                          expected |-> Expected(chg_action, change_magnitude),
                          confidence |-> IF use_hf THEN 85 ELSE 70]
    /\ UNCHANGED <<chg_similarity, chg_action>>

----------------------------------------------------------------------------
(* The loop of VisualAIServicer.BatchCompare (server.py lines 439-478), one *)
(* pair at a time, on the encoder the router gave.                         *)

\* Pairs in a batch.
MaxBatchPairs == 3
PairIds == {"a", "b"}
\* A pair: its pair_id, the similarity its two images have, and whether
\* loading or encoding them raises.
PairInputs ==
    {[pair_id |-> p, sim |-> x.sim, fault |-> x.fault] : p \in PairIds, x \in IO}
NoBatchResponse == [status |-> "none", results |-> <<>>, total |-> 0, matches |-> 0,
                    mismatches |-> 0]

\* The new result put in front of the earlier ones.
AddResult_Prepend(rs, r) == <<r>> \o rs

\* Line 457: results.append(...)
AddResult(rs, r) == Append(rs, r)

BatchInit ==
    /\ batch_pairs \in SeqsUpTo(PairInputs, MaxBatchPairs)
    /\ batch_encoder \in Models
    /\ batch_k = 0
    /\ batch_results = <<>>
    /\ batch_total_sim = 0
    /\ batch_matches = 0
    /\ batch_response = NoBatchResponse

\* The pair the loop is at.
CurrentPair == batch_pairs[batch_k + 1]
\* Lines 449-452 raise on this pair: the loader, the missing compare method,
\* or the encoder.
PairRaises ==
    \/ CurrentPair.fault # "none"
    \/ ~HasAttr(batch_encoder, "compare")

\* Lines 445-462: one iteration that ends normally.
BatchPair ==
    /\ batch_response = NoBatchResponse
    /\ batch_k < Len(batch_pairs)
    /\ ~PairRaises
    /\ LET is_similar == CurrentPair.sim >= DefaultSimilarityThreshold
       IN  /\ batch_total_sim' = batch_total_sim + CurrentPair.sim
           /\ batch_matches' = IF is_similar THEN batch_matches + 1 ELSE batch_matches
           /\ batch_results' = AddResult(batch_results,
                                         [pair_id |-> CurrentPair.pair_id,
                                          similarity_score |-> CurrentPair.sim,
                                          semantic_match |-> is_similar,
                                          analysis |-> CompareAnalysis(CurrentPair.sim)])
    /\ batch_k' = batch_k + 1
    /\ UNCHANGED <<batch_pairs, batch_encoder, batch_response>>

\* Lines 474-478: an iteration raises; the handler answers INTERNAL with an
\* empty response.
BatchFail ==
    /\ batch_response = NoBatchResponse
    /\ batch_k < Len(batch_pairs)
    /\ PairRaises
    /\ batch_response' = [status |-> "INTERNAL", results |-> <<>>, total |-> 0,
                          matches |-> 0, mismatches |-> 0]
    /\ UNCHANGED <<batch_pairs, batch_encoder, batch_k, batch_results, batch_total_sim,
                   batch_matches>>

\* Lines 464-472: the loop is over; average_similarity is total / len(results).
BatchRespond ==
    /\ batch_response = NoBatchResponse
    /\ batch_k = Len(batch_pairs)
    /\ batch_response' = [status |-> "OK", results |-> batch_results,
                          total |-> batch_total_sim, matches |-> batch_matches,
                          mismatches |-> Len(batch_results) - batch_matches]
    /\ UNCHANGED <<batch_pairs, batch_encoder, batch_k, batch_results, batch_total_sim,
                   batch_matches>>

----------------------------------------------------------------------------
(* Specifications: one per component; the other components stand idle.     *)

\* The router is not in use.
RouterIdle ==
    /\ available_models = {}
    /\ iter_order = <<>>
    /\ call = NoCall
    /\ result = NoResult
    /\ prev_result = NoResult

\* The temporal analyzer is not running.
StabIdle ==
    /\ frames = <<>>
    /\ threshold = DefaultStabilityThreshold
    /\ pc = "idle"
    /\ similarities = <<>>
    /\ walk_i = 0
    /\ stable_count = 0
    /\ stable_at = -1
    /\ verdict = NoVerdict
    /\ simple_pc = "idle"
    /\ simple_verdict = NoVerdict

\* validate_healing is not running.
HealIdle ==
    /\ transition_sim = 0
    /\ final_sim = 0
    /\ heal_threshold = 85
    /\ use_hf = FALSE
    /\ heal_pc = "idle"
    /\ heal_verdict = NoHealVerdict

\* No request is recording a latency.
LatIdle ==
    /\ lat_heap = [r \in Refs |-> IF r = 0 THEN <<>> ELSE Free]
    /\ lat_window = 0
    /\ lat_thread = [w \in Workers |-> IdleThread]
    /\ lat_count = 0
    /\ lat_overlapped = FALSE

\* No servicer object exists.
ServiceIdle ==
    /\ models = {}
    /\ inference_times = <<>>
    /\ request = NoRequest
    /\ outcome = NoOutcome
    /\ prev_outcome = NoOutcome
    /\ n_requests = 0

\* calculate_changed_regions is not running.
GridIdle ==
    /\ grid_H = 1 /\ grid_W = 1 /\ grid_size = 1
    /\ pixel_threshold = 10
    /\ grid_k = 0
    /\ considered = <<>>
    /\ changes = <<>>
    /\ grid_pc = "idle"

\* find_by_description is not running.
SearchIdle ==
    /\ img_H = 1 /\ img_W = 1 /\ search_grid = 1
    /\ max_results = 0
    /\ search_k = 0
    /\ results = <<>>
    /\ found = <<>>
    /\ search_pc = "idle"

\* No comparison is made.
CompareIdle ==
    /\ cmp_similarity = 0
    /\ cmp_threshold = DefaultSimilarityThreshold
    /\ dino_result = [similarity |-> 0, is_similar |-> FALSE, analysis |-> "idle"]
    /\ base_result = dino_result
    /\ seq_result = dino_result

\* analyze_change is not running.
ChangeIdle ==
    /\ chg_similarity = 0
    /\ chg_action = <<>>
    /\ chg_result = [description |-> "idle", changes |-> <<>>, expected |-> FALSE,
                     confidence |-> 0]

\* No batch is being compared.
BatchIdle ==
    /\ batch_pairs = <<>>
    /\ batch_encoder = NoModel
    /\ batch_k = 0
    /\ batch_results = <<>>
    /\ batch_total_sim = 0
    /\ batch_matches = 0
    /\ batch_response = [status |-> "idle", results |-> <<>>, total |-> 0, matches |-> 0,
                         mismatches |-> 0]

FunIdle == GridIdle /\ SearchIdle /\ CompareIdle /\ ChangeIdle /\ BatchIdle
\* The components of the request path stand idle.
CoreIdle == RouterIdle /\ StabIdle /\ HealIdle /\ LatIdle /\ ServiceIdle
coreVars == <<routerVars, stabVars, healVars, latVars, svcVars>>

Init == RouterInit /\ StabIdle /\ HealIdle /\ LatIdle /\ ServiceIdle /\ FunIdle

Next ==
    \/ Construct /\ UNCHANGED <<stabVars, healVars, latVars, svcVars, funVars>>
    \/ RouteCall /\ UNCHANGED <<stabVars, healVars, latVars, svcVars, funVars>>

Spec == Init /\ [][Next]_vars

InitStability == StabInit /\ RouterIdle /\ HealIdle /\ LatIdle /\ ServiceIdle /\ FunIdle

NextStability ==
    \/ SingleFrame /\ UNCHANGED <<routerVars, healVars, latVars, svcVars, funVars>>
    \/ Compare /\ UNCHANGED <<routerVars, healVars, latVars, svcVars, funVars>>
    \/ WalkStep /\ UNCHANGED <<routerVars, healVars, latVars, svcVars, funVars>>
    \/ Finish /\ UNCHANGED <<routerVars, healVars, latVars, svcVars, funVars>>
    \/ SimpleStability /\ UNCHANGED <<routerVars, healVars, latVars, svcVars, funVars>>

SpecStability == InitStability /\ [][NextStability]_vars

InitHealing == HealInit /\ RouterIdle /\ StabIdle /\ LatIdle /\ ServiceIdle /\ FunIdle

NextHealing == ValidateHealing /\ UNCHANGED <<routerVars, stabVars, latVars, svcVars, funVars>>

SpecHealing == InitHealing /\ [][NextHealing]_vars

InitLatency == LatInit /\ RouterIdle /\ StabIdle /\ HealIdle /\ ServiceIdle /\ FunIdle

NextLatency ==
    \/ \E w \in Workers : LatGet(w) /\ UNCHANGED <<routerVars, stabVars, healVars, svcVars, funVars>>
    \/ \E w \in Workers : LatAppend(w) /\ UNCHANGED <<routerVars, stabVars, healVars, svcVars, funVars>>
    \/ \E w \in Workers : LatCheck(w) /\ UNCHANGED <<routerVars, stabVars, healVars, svcVars, funVars>>
    \/ \E w \in Workers : LatSlice(w) /\ UNCHANGED <<routerVars, stabVars, healVars, svcVars, funVars>>
    \/ \E w \in Workers : LatStore(w) /\ UNCHANGED <<routerVars, stabVars, healVars, svcVars, funVars>>

SpecLatency == InitLatency /\ [][NextLatency]_vars

InitService == ServiceInit /\ StabIdle /\ HealIdle /\ LatIdle /\ FunIdle

NextService ==
    \/ CompareFrames /\ UNCHANGED <<stabVars, healVars, latVars, funVars>>
    \/ ValidateHealingRequest /\ UNCHANGED <<stabVars, healVars, latVars, funVars>>
    \/ DetectStability /\ UNCHANGED <<stabVars, healVars, latVars, funVars>>
    \/ FindByDescription /\ UNCHANGED <<stabVars, healVars, latVars, funVars>>
    \/ GenerateEmbedding /\ UNCHANGED <<stabVars, healVars, latVars, funVars>>
    \/ BatchCompare /\ UNCHANGED <<stabVars, healVars, latVars, funVars>>
    \/ AnalyzeChange /\ UNCHANGED <<stabVars, healVars, latVars, funVars>>

SpecService == InitService /\ [][NextService]_vars

InitGrid == GridInit /\ CoreIdle /\ SearchIdle /\ CompareIdle /\ ChangeIdle /\ BatchIdle

NextGrid ==
    \/ GridCell /\ UNCHANGED <<coreVars, searchVars, cmpVars, chgVars, batchVars>>
    \/ GridReturn /\ UNCHANGED <<coreVars, searchVars, cmpVars, chgVars, batchVars>>

SpecGrid == InitGrid /\ [][NextGrid]_vars

InitSearch == SearchInit /\ CoreIdle /\ GridIdle /\ CompareIdle /\ ChangeIdle /\ BatchIdle

NextSearch ==
    \/ SearchCell /\ UNCHANGED <<coreVars, gridVars, cmpVars, chgVars, batchVars>>
    \/ SearchRaise /\ UNCHANGED <<coreVars, gridVars, cmpVars, chgVars, batchVars>>
    \/ SearchReturn /\ UNCHANGED <<coreVars, gridVars, cmpVars, chgVars, batchVars>>

SpecSearch == InitSearch /\ [][NextSearch]_vars

InitCompare == CompareInit /\ CoreIdle /\ GridIdle /\ SearchIdle /\ ChangeIdle /\ BatchIdle

NextCompare ==
    \/ DinoCompare /\ UNCHANGED <<coreVars, gridVars, searchVars, chgVars, batchVars>>
    \/ BaseCompare /\ UNCHANGED <<coreVars, gridVars, searchVars, chgVars, batchVars>>
    \/ CompareSequences /\ UNCHANGED <<coreVars, gridVars, searchVars, chgVars, batchVars>>

SpecCompare == InitCompare /\ [][NextCompare]_vars

InitChange == ChangeInit /\ CoreIdle /\ GridIdle /\ SearchIdle /\ CompareIdle /\ BatchIdle

NextChange ==
    AnalyzeChangeCall /\ UNCHANGED <<coreVars, gridVars, searchVars, cmpVars, batchVars>>

SpecChange == InitChange /\ [][NextChange]_vars

InitBatch == BatchInit /\ CoreIdle /\ GridIdle /\ SearchIdle /\ CompareIdle /\ ChangeIdle

NextBatch ==
    \/ BatchPair /\ UNCHANGED <<coreVars, gridVars, searchVars, cmpVars, chgVars>>
    \/ BatchFail /\ UNCHANGED <<coreVars, gridVars, searchVars, cmpVars, chgVars>>
    \/ BatchRespond /\ UNCHANGED <<coreVars, gridVars, searchVars, cmpVars, chgVars>>

SpecBatch == InitBatch /\ [][NextBatch]_vars

----------------------------------------------------------------------------
(* Properties of validate_healing                                          *)

Returned_Healing == heal_pc = "done"

\* C12: validate_healing computes combined = 0.3 * transition_similarity +
\* 0.7 * final_similarity and returns is_valid = true exactly when combined >=
\* threshold; transition 0.60 and final 0.90 give 0.81, and transition 0.50,
\* final 0.40 at threshold 0.85 give 0.43 and is_valid false.
C12_HealingCombination ==
    Returned_Healing =>
        /\ heal_verdict.combined_sim = 3 * transition_sim + 7 * final_sim
        /\ heal_verdict.is_valid <=>
               (3 * transition_sim + 7 * final_sim >= 10 * heal_threshold)
        /\ (transition_sim = 60 /\ final_sim = 90) => heal_verdict.combined_sim = 810
        /\ (transition_sim = 50 /\ final_sim = 40 /\ heal_threshold = 85)
               => (heal_verdict.combined_sim = 430 /\ ~heal_verdict.is_valid)

\* A verdict that is valid with combined exactly equal to the threshold,
\* although the transition similarity alone is below it.
C12_Witness ==
    /\ Returned_Healing
    /\ heal_verdict.is_valid
    /\ heal_verdict.combined_sim = 10 * heal_threshold
    /\ transition_sim < heal_threshold
    /\ final_sim > heal_threshold

\* C13: exactly one of the three explanations is produced: the success
\* variant iff is_valid; the final-state-failure variant iff not is_valid and
\* final_similarity < threshold; the uncertain variant iff not is_valid and
\* final_similarity >= threshold.
C13_ThreeWayExplanation ==
    Returned_Healing =>
        /\ heal_verdict.analysis \in {"validated", "failed", "uncertain"}
        /\ heal_verdict.analysis = "validated" <=> heal_verdict.is_valid
        /\ heal_verdict.analysis = "failed"
               <=> (~heal_verdict.is_valid /\ final_sim < heal_threshold)
        /\ heal_verdict.analysis = "uncertain"
               <=> (~heal_verdict.is_valid /\ final_sim >= heal_threshold)

\* The uncertain variant: the final state is close enough, the transition
\* pulled the combination below the threshold.
C13_Witness ==
    /\ Returned_Healing
    /\ heal_verdict.analysis = "uncertain"
    /\ final_sim >= heal_threshold
    /\ transition_sim < heal_threshold
    /\ ~heal_verdict.is_valid

----------------------------------------------------------------------------
(* Properties of the latency window                                        *)

AllReturned == \A w \in Workers : lat_thread[w].pc = "idle"
Window == lat_heap[lat_window]
Occurrences(s, x) == Cardinality({i \in 1..Len(s) : s[i] = x})
\* The observations that are among the last 100 of the lat_count made.
LastObservations == {k \in 1..lat_count : k > lat_count - WindowLimit}

\* C14: once every started call of _record_inference_time has returned, each
\* sample among the last 100 observations is in the window exactly once,
\* whatever the interleaving was: no append is lost or duplicated.
C14_NoAppendLostOrDuplicated ==
    AllReturned => \A k \in LastObservations : Occurrences(Window, k) = 1

\* C15: once every started call has returned the window holds at most 100
\* samples, and after k calls made one after another it holds exactly the
\* most recent min(k, 100) samples in arrival order.
C15_WindowBounded ==
    AllReturned =>
        /\ Len(Window) <= WindowLimit
        /\ ~lat_overlapped =>
               Window = [i \in 1..Cardinality(LastObservations) |->
                            lat_count - Cardinality(LastObservations) + i]

\* The part of C15 about calls made one after another.
SequentialWindowIsLast100 ==
    (AllReturned /\ ~lat_overlapped) =>
        Window = [i \in 1..Cardinality(LastObservations) |->
                     lat_count - Cardinality(LastObservations) + i]

----------------------------------------------------------------------------
(* Properties of the unified service                                       *)

Handled == request # NoRequest
AnyFault(req) == \E k \in 1..Len(req.io) : req.io[k].fault # "none"
ErrorStatuses == {"UNAVAILABLE", "INVALID_ARGUMENT", "INTERNAL"}
\* Lines 126, 173: the statuses of the no-provider and the provider-error outcomes.
NoProviderStatus == "UNAVAILABLE"
ProviderErrorStatus == "INTERNAL"

\* C16: a request handled again, when only the latency windows have changed
\* since it was handled before, is routed to the same provider and completes
\* with the same status and verdict; and no request changes the router's
\* availability set or the loaded encoders.
C16_LatencyNeverFeedsBack ==
    /\ [](prev_outcome # NoOutcome => outcome = prev_outcome)
    /\ [][available_models' = available_models /\ models' = models]_vars

\* With several encoders loaded the same request has completed twice with a
\* verdict, the second time with a sample of the first already in its
\* provider's window.
C16_Witness ==
    /\ Cardinality(models) >= 2
    /\ prev_outcome # NoOutcome
    /\ outcome.status = "OK"
    /\ Len(inference_times[outcome.model_used]) = 2

\* A handler completes with a full verdict and no error status, or with an
\* empty response and an error status.
TwoCompletions ==
    \/ outcome.response = "full" /\ outcome.status = "OK"
    \/ /\ outcome.response = "empty"
       /\ outcome.status \in ErrorStatuses
       /\ outcome.verdict = EmptyVerdict

\* C17: every operation completes either with a fully populated verdict and no
\* error status or with an empty response and an error status; a BatchCompare
\* that fails on a pair returns none of the earlier pairs' results.
C17_NoPartialVerdict == Handled => TwoCompletions

\* The part of C17 that holds: with at least one encoder loaded.
TwoCompletionsWhenLoaded == (Handled /\ models # {}) => TwoCompletions

\* Frame input from which some frame list of the operation would be empty.
InvalidFrames(req) ==
    \/ req.op \in {"ValidateHealing", "DetectStability"} /\ req.n_frames = 0
    \/ /\ req.op = "ValidateHealing"
       /\ \/ AfterCount(req.n_frames) = 0
          \/ ExpectedCount(req.n_frames, req.has_expected) = 0

\* C18: a ValidateHealing or DetectStability request with invalid frame input
\* that was routed to a provider, with no failure of the loader or the
\* encoder, ends with INVALID_ARGUMENT and without any encoder method having
\* been invoked.
C18_InvalidInputRejectedFirst ==
    (Handled /\ InvalidFrames(request) /\ ~AnyFault(request)
        /\ outcome.model_used # NoModel) =>
        /\ outcome.status = "INVALID_ARGUMENT"
        /\ outcome.encoder_calls = 0

\* The part of C18 that holds: an empty frame sequence.
EmptySequenceRejectedFirst ==
    (Handled /\ request.op \in {"ValidateHealing", "DetectStability"}
        /\ request.n_frames = 0 /\ outcome.model_used # NoModel) =>
        /\ outcome.status = "INVALID_ARGUMENT"
        /\ outcome.encoder_calls = 0

\* The routed provider lacks the method the request needs.
Unsupported(req, out) ==
    /\ out.model_used \in models
    /\ \/ req.op = "FindByDescription" /\ ~HasAttr(out.model_used, "find_by_description")
       \/ /\ req.op \in {"CompareFrames", "BatchCompare"}
          /\ Len(req.io) >= 1
          /\ ~HasAttr(out.model_used, "compare")

\* C19: a request routed to a provider that lacks the operation it needs, with
\* no failure of the loader or the encoder, ends with a status that is neither
\* the no-provider status nor the provider-error status.
C19_UnsupportedDistinguishable ==
    (Handled /\ Unsupported(request, outcome) /\ ~AnyFault(request)) =>
        outcome.status \notin {NoProviderStatus, ProviderErrorStatus}

\* C20: with no encoder loaded every operation completes with an empty
\* response and the status UNAVAILABLE, "No encoder available".
C20_NoProviderIsUnavailable ==
    (Handled /\ models = {}) =>
        /\ outcome.response = "empty"
        /\ outcome.status = "UNAVAILABLE"
        /\ outcome.details = "No encoder available"

----------------------------------------------------------------------------
(* Agreement of the two stability paths                                    *)

\* Both detect_stability and _simple_stability have returned on the same
\* frames and threshold, and there are at least two similarities.
BothReturned == Returned_Stability /\ simple_pc = "done" /\ Len(frames) >= 3

\* C26: on the same n >= 2 consecutive-pair similarities and the same
\* threshold, _simple_stability returns the same is_stable and the same
\* stable_at as detect_stability.
C26_StabilityPathsAgree ==
    BothReturned =>
        /\ simple_verdict.is_stable = verdict.is_stable
        /\ simple_verdict.stable_at = verdict.stable_at

\* The part of C26 that holds: is_stable.
IsStableAgrees == BothReturned => simple_verdict.is_stable = verdict.is_stable

----------------------------------------------------------------------------
(* Convexity in validate_healing                                           *)

----------------------------------------------------------------------------
(* Properties of the grid change detector                                  *)

GridDone == grid_pc = "done"
Source(H, W) == (0..(W - 1)) \X (0..(H - 1))
\* No pixel lies in two of the cells.
Disjoint(cells, H, W) ==
    \A a, b \in 1..Len(cells) :
        a # b => Pixels(cells[a], H, W) \cap Pixels(cells[b], H, W) = {}
\* Every pixel of the source lies in some cell.
Covers(cells, H, W) ==
    UNION {Pixels(cells[a], H, W) : a \in 1..Len(cells)} = Source(H, W)

\* C21: for every height, width and grid_size >= 1 the grid_size x grid_size
\* cells calculate_changed_regions considers are pairwise non-overlapping and
\* their union is exactly the H x W source, trailing rows and columns
\* included.
C21_GridTilesSource ==
    GridDone =>
        /\ Len(considered) = grid_size * grid_size
        /\ Disjoint(considered, grid_H, grid_W)
        /\ Covers(considered, grid_H, grid_W)

\* The parts of C21 that hold: the cells never overlap, and they cover the
\* source when grid_size divides both sides.
GridCellsDisjoint == GridDone => Disjoint(considered, grid_H, grid_W)
GridTilesWhenDivisible ==
    (GridDone /\ grid_H % grid_size = 0 /\ grid_W % grid_size = 0)
        => Covers(considered, grid_H, grid_W)
\* The same coverage asked of the patches of find_by_description; it fails on
\* the same heights and widths.
SearchPatchesCover ==
    search_pc = "done" =>
        UNION {Pixels(results[a], img_H, img_W) : a \in 1..Len(results)}
            = Source(img_H, img_W)

\* C29: every region calculate_changed_regions emits for a positive
\* threshold has significance exactly 1.0.
C29_SignificanceIsOne ==
    \A k \in 1..Len(changes) : changes[k].significance = [num |-> 1, den |-> 1]

\* The function has returned regions, and has left out a cell.
C29_Witness ==
    /\ GridDone
    /\ pixel_threshold > 0
    /\ Len(changes) >= 1
    /\ Len(changes) < Len(considered)

----------------------------------------------------------------------------
(* Properties of the text search                                           *)

SearchDone == search_pc = "done"
NotReturned == {results[a] : a \in 1..Len(results)} \ {found[b] : b \in 1..Len(found)}

\* C22: find_by_description scores every one of the grid_size^2 cells without
\* a threshold and for max_results = K >= 0 returns exactly min(K,
\* grid_size^2) regions in descending order of similarity, each with a score
\* >= that of every cell not returned.
C22_TopK ==
    SearchDone =>
        /\ Len(results) = search_grid * search_grid
        /\ Len(found) = Min(max_results, search_grid * search_grid)
        /\ \A b \in 1..Len(found) : \E a \in 1..Len(results) : found[b] = results[a]
        /\ \A b, c \in 1..Len(found) : b < c => found[b].similarity >= found[c].similarity
        /\ \A b, c \in 1..Len(found) : b # c => found[b] # found[c]
        /\ \A b \in 1..Len(found) : \A r \in NotReturned : found[b].similarity >= r.similarity

\* Some cells were returned and some were not, and their scores differ.
C22_Witness ==
    /\ SearchDone
    /\ Len(found) >= 2
    /\ NotReturned # {}
    /\ \E r \in NotReturned : found[1].similarity > r.similarity
    /\ found[1].similarity > found[Len(found)].similarity

----------------------------------------------------------------------------
(* Properties of the similarity bands                                      *)

\* The band an analysis text stands for.
Band(analysis) ==
    CASE analysis \in {"Frames are nearly identical",
                       "Sequences are semantically equivalent - same state transition"}
             -> "nearly-identical"
      [] analysis \in {"Frames are semantically similar with minor differences",
                       "Sequences show similar transitions with minor variations"}
             -> "similar"
      [] analysis \in {"Frames have noticeable differences",
                       "Sequences differ but may represent related states"}
             -> "differing"
      [] analysis \in {"Frames are significantly different",
                       "Sequences represent significantly different state transitions"}
             -> "dissimilar"
      [] OTHER -> "none"

\* The band the cut points 0.95, 0.85, 0.70 give a similarity.
BandOf(sim) ==
    IF sim > 95 THEN "nearly-identical"
    ELSE IF sim > 85 THEN "similar"
    ELSE IF sim > 70 THEN "differing"
    ELSE "dissimilar"

AllCompared ==
    /\ dino_result # NoComparison
    /\ base_result # NoComparison
    /\ seq_result # NoComparison

\* C23: every similarity value falls into exactly one of the four bands
\* nearly-identical (> 0.95), similar (> 0.85), differing (> 0.70),
\* dissimilar (<= 0.70), and DINOv2Encoder.compare, BaseEncoder.compare and
\* compare_sequences give the same similarity the same band.
C23_BandsPartitionAndAgree ==
    /\ dino_result # NoComparison => Band(dino_result.analysis) = BandOf(cmp_similarity)
    /\ base_result # NoComparison => Band(base_result.analysis) = BandOf(cmp_similarity)
    /\ seq_result # NoComparison => Band(seq_result.analysis) = BandOf(cmp_similarity)
    /\ AllCompared =>
           /\ Band(dino_result.analysis) = Band(base_result.analysis)
           /\ Band(dino_result.analysis) = Band(seq_result.analysis)

\* All three have classified a similarity that sits on a cut point.
C23_Witness ==
    /\ AllCompared
    /\ cmp_similarity \in {70, 85, 95}
    /\ Band(seq_result.analysis) \in {"dissimilar", "differing", "similar"}

MatchIffUpperBandsOffCut ==
    (dino_result # NoComparison /\ cmp_threshold = DefaultSimilarityThreshold
        /\ cmp_similarity # DefaultSimilarityThreshold) =>
        (dino_result.is_similar
            <=> Band(dino_result.analysis) \in {"nearly-identical", "similar"})

----------------------------------------------------------------------------
(* Properties of change analysis                                           *)

Analyzed == chg_result # NoChange
Magnitude == 100 - chg_similarity
\* The keywords the label holds once lowered.
HasInteractive == \E kw \in InteractiveKeywords : Contains(chg_action, kw)
HasHover == Contains(chg_action, "hover")

\* C24: with magnitude = 1 - similarity, a label with an interactive keyword
\* (click, submit, navigate, type) gives expected = (magnitude > 0.02), also
\* when it holds hover as well; otherwise a label with hover gives expected =
\* (magnitude < 0.30); an empty label or one with none of the keywords gives
\* expected = true.
C24_ActionAwareExpectation ==
    Analyzed =>
        /\ HasInteractive => (chg_result.expected <=> Magnitude > 2)
        /\ (~HasInteractive /\ HasHover) => (chg_result.expected <=> Magnitude < 30)
        /\ (~HasInteractive /\ ~HasHover) => chg_result.expected

\* A label with both an interactive keyword and hover, on a large change:
\* expected as for the interactive keyword.
C24_Witness ==
    /\ Analyzed
    /\ HasInteractive /\ HasHover
    /\ Magnitude >= 30
    /\ chg_result.expected

----------------------------------------------------------------------------
(* Properties of the batch loop                                            *)

BatchSucceeded == batch_response.status = "OK"

\* C25: on success the response holds one result per input pair, in input
\* order and with the pair's own pair_id, matches is the number of results
\* with semantic_match true, and matches + mismatches is the number of pairs.
C25_BatchResultOrder ==
    BatchSucceeded =>
        /\ Len(batch_response.results) = Len(batch_pairs)
        /\ \A k \in 1..Len(batch_pairs) :
               /\ batch_response.results[k].pair_id = batch_pairs[k].pair_id
               /\ batch_response.results[k].similarity_score = batch_pairs[k].sim
        /\ batch_response.matches =
               Cardinality({k \in 1..Len(batch_response.results) :
                               batch_response.results[k].semantic_match})
        /\ batch_response.matches + batch_response.mismatches = Len(batch_pairs)

\* A batch of pairs with different ids, one matching and one not, succeeded.
C25_Witness ==
    /\ BatchSucceeded
    /\ Len(batch_pairs) >= 2
    /\ batch_pairs[1].pair_id # batch_pairs[2].pair_id
    /\ batch_pairs[1].sim # batch_pairs[2].sim
    /\ batch_response.matches >= 1
    /\ batch_response.mismatches >= 1

----------------------------------------------------------------------------
(* Frame effect of a request on the latency windows                        *)

Samples(s) == {s[i] : i \in 1..Len(s)}

\* A handler, run alone, appends one sample to the routed provider's window
\* exactly when it succeeds and leaves every other window as it was.
SequentialFrameEffect ==
    [][IF outcome'.status = "OK"
       THEN /\ outcome'.model_used \in models
            /\ inference_times' =
                   [inference_times EXCEPT ![outcome'.model_used] = Append(@, n_requests')]
       ELSE inference_times' = inference_times]_vars

\* C30: a request that succeeds appends exactly one sample to its provider's
\* window and changes nothing else in it: when the last request in flight
\* stores the window and returns, every sample among the last 100
\* observations that was in the window before is still there, and the window
\* has grown by at most that request's one sample.
C30_SuccessAppendsOneSample ==
    [][\A w \in Workers :
          (LatStore(w) /\ AllReturned') =>
              /\ Samples(Window) \cap LastObservations \subseteq Samples(Window)'
              /\ Len(Window') <= Len(Window) + 1]_vars

====
